---- MODULE Spec2Model ----
(***************************************************************************)
(* A model of the rule engine of firecrawl/html-to-markdown: the recursive *)
(* walker (selecToMD / applyRulesToSelection), rule precedence             *)
(* (applyRules), Header/Footer accumulation (appendBlock / accumulate),    *)
(* the registry lock discipline, the Before hooks and the Table plugin.    *)
(*                                                                         *)
(* Strings are sequences of one-character strings, so that concatenation,  *)
(* suffix tests and searches are computed as the Go code computes them.    *)
(***************************************************************************)
EXTENDS Naturals, Sequences, FiniteSets, TLC

VARIABLES
    rules,      \* Converter.rules : tag -> ordered list of replacement functions
    remove,     \* Converter.remove: set of removed tag names
    before,     \* Converter.before: ordered list of Before hooks
    mutex,      \* Converter.mutex : [readers |-> set of holders, writer |-> BOOLEAN]
    doc,        \* the parsed tree of the conversion in progress
    pc,         \* position of the sequential conversion
    out,        \* the AdvancedResult returned by the last render, with its log
    acc,        \* an AdvancedResult being accumulated into, with the last argument
    walk,       \* per goroutine: the walker's call stack and result
    gen         \* number of registry writes so far

vars == <<rules, remove, before, mutex, doc, pc, out, acc, walk, gen>>

----------------------------------------------------------------------------
(* Bounds *)

MaxNodes == 3       \* nodes of an input tree
MaxRules == 3       \* registered replacements in the whole registry
MaxFrag == 2        \* characters of a Header fragment handed to accumulate
MaxCalls == 2       \* accumulate calls on one AdvancedResult
MaxWrites == 1      \* registrations made while conversions run
MaxHooks == 2       \* registered Before hooks

----------------------------------------------------------------------------
(* Strings *)

NL == "\n"

HasSuffixNL(s) == Len(s) > 0 /\ s[Len(s)] = NL

RECURSIVE Repeat(_, _)
\* strings.Repeat(s, k)
Repeat(s, k) == IF k = 0 THEN <<>> ELSE s \o Repeat(s, k - 1)

----------------------------------------------------------------------------
(* The tree: nodes 1..d.n, node 1 is the selection handed to the renderer. *)
(* d.tag[i] is goquery.NodeName, d.kids[i] the children in document order. *)

Tags == {"div", "a"}

NodesOf(d) == 1 .. d.n

Parent(d, s) ==
    IF \E p \in NodesOf(d) : \E i \in 1 .. Len(d.kids[p]) : d.kids[p][i] = s
    THEN CHOOSE p \in NodesOf(d) : \E i \in 1 .. Len(d.kids[p]) : d.kids[p][i] = s
    ELSE 0

RECURSIVE Ancestors(_, _)
Ancestors(d, s) ==
    LET p == Parent(d, s)
    IN  IF p = 0 THEN {} ELSE {p} \cup Ancestors(d, p)

RECURSIVE Preorder(_, _), PreorderKids(_, _, _)
PreorderKids(d, n, i) ==
    IF i > Len(d.kids[n]) THEN <<>>
    ELSE Preorder(d, d.kids[n][i]) \o PreorderKids(d, n, i + 1)
Preorder(d, n) == <<n>> \o PreorderKids(d, n, 1)

\* selec.Find(tag): the descendants of n with that tag, in document order
Find(d, n, tag) == SelectSeq(PreorderKids(d, n, 1), LAMBDA x : d.tag[x] = tag)

RECURSIVE SortedSeq(_)
\* the members of a set of numbers in ascending order
SortedSeq(S) ==
    IF S = {} THEN <<>>
    ELSE LET m == CHOOSE x \in S : \A y \in S : x <= y
         IN  <<m>> \o SortedSeq(S \ {m})

\* every ordered tree of k nodes: node i > 1 hangs under an earlier node, and
\* siblings are in document order by number
Shapes(k) == { p \in [1 .. k -> 0 .. k] : p[1] = 0 /\ \A i \in 2 .. k : p[i] \in 1 .. (i - 1) }

MkDoc(k, p, t) ==
    [ n    |-> k,
      tag  |-> t,
      kids |-> [ i \in 1 .. k |-> SortedSeq({ j \in 1 .. k : p[j] = i }) ] ]

Docs == UNION { { MkDoc(k, p, t) : p \in Shapes(k), t \in [1 .. k -> Tags] } : k \in 1 .. MaxNodes }

----------------------------------------------------------------------------
(* AdvancedResult and the replacement functions *)

AdvancedResult(h, m, f) == [Header |-> h, Markdown |-> m, Footer |-> f]

EmptyResult == AdvancedResult(<<>>, <<>>, <<>>)

Mark(s) == ToString(s)

\* The replacement functions a caller may register.  Each names the node it was
\* invoked on in what it returns, so that the origin of every piece of output
\* can be told.
\*   "skip" : AdvancedReplacement returning skip = true (its result must be ignored)
\*   "md"   : Markdown = <node>[ content ]
\*   "hf"   : Header "H<node>" (no trailing newline), Footer "F<node>\n",
\*            Markdown = content
RuleKinds == {"skip", "md", "hf"}

TestRule(kind, content, s, d) ==
    CASE kind = "skip" ->
            [res |-> AdvancedResult(<<"!">>, <<"!">>, <<"!">>), skip |-> TRUE]
      [] kind = "md" ->
            [res |-> AdvancedResult(<<>>, <<Mark(s), "[">> \o content \o <<"]">>, <<>>),
             skip |-> FALSE]
      [] kind = "hf" ->
            [res |-> AdvancedResult(<<"H", Mark(s)>>, content, <<"F", Mark(s), NL>>),
             skip |-> FALSE]

\* a simple Replacement that returned a string, seen as an AdvancedReplacement
Simple(text) == [res |-> AdvancedResult(<<>>, text, <<>>), skip |-> FALSE]

\* goquery's Index: the position of s among its parent's element children
Index(d, s) ==
    LET p == Parent(d, s)
    IN  IF p = 0 THEN 0
        ELSE (CHOOSE i \in 1 .. Len(d.kids[p]) : d.kids[p][i] = s) - 1

\* the list-item rule: an item of an ordered list is numbered by its index
\* among all its sibling elements
liRule(content, s, d) ==
    LET p == Parent(d, s)
    IN  IF p # 0 /\ d.tag[p] = "ol"
        THEN Simple(<<ToString(Index(d, s) + 1), ".", " ">> \o content \o <<NL>>)
        ELSE Simple(<<"-", " ">> \o content \o <<NL>>)

----------------------------------------------------------------------------
(* The Table plugin's rules, plugin/table.go *)

\* html.ElementNode: every node but a text node
IsElement(d, n) == d.tag[n] # "#text"

\* s.Children(): the element children of s, in document order
Children(d, s) == SelectSeq(d.kids[s], LAMBDA c : IsElement(d, c))

\* s.Siblings(): the other element children of the parent of s
Siblings(d, s) ==
    LET p == Parent(d, s)
    IN  IF p = 0 THEN <<>> ELSE SelectSeq(Children(d, p), LAMBDA c : c # s)

\* lines 165-180 and 202-215: s is the first element child of its parent
IsFirstElementChild(d, s) ==
    LET p == Parent(d, s)
    IN  p # 0 /\ Children(d, p) # <<>> /\ Head(Children(d, p)) = s

\* isFirstTbody, lines 182-189
isFirstTbody(d, s) ==
    LET siblings     == Siblings(d, s)
        firstSibling == IF siblings = <<>> THEN <<>> ELSE <<siblings[1]>>
    IN  s # 0 /\ d.tag[s] = "tbody" /\ Len(firstSibling) = 0

\* isHeadingRow, lines 140-181
isHeadingRow(d, s) ==
    LET parent        == Parent(d, s)
        isTableOrBody == parent # 0 /\ (d.tag[parent] = "table" \/ isFirstTbody(d, parent))
        children      == Children(d, s)
        everyTH       == \A i \in 1 .. Len(children) : d.tag[children[i]] = "th"
    IN  IF parent # 0 /\ d.tag[parent] = "thead" THEN TRUE
        ELSE IF ~everyTH \/ ~isTableOrBody THEN FALSE
        ELSE IsFirstElementChild(d, s)

Space == {" ", "\t", "\n", "\r"}

RECURSIVE TrimLeft(_)
TrimLeft(s) == IF s # <<>> /\ Head(s) \in Space THEN TrimLeft(Tail(s)) ELSE s

RECURSIVE TrimRight(_)
TrimRight(s) ==
    IF s # <<>> /\ s[Len(s)] \in Space THEN TrimRight(SubSeq(s, 1, Len(s) - 1)) ELSE s

\* strings.TrimSpace
TrimSpace(s) == TrimRight(TrimLeft(s))

RECURSIVE NewLineRun(_)
\* the length of the longest prefix of s that matches (\r?\n)+, 0 if none does
NewLineRun(s) ==
    IF s # <<>> /\ Head(s) = NL THEN 1 + NewLineRun(Tail(s))
    ELSE IF Len(s) >= 2 /\ s[1] = "\r" /\ s[2] = NL
         THEN 2 + NewLineRun(SubSeq(s, 3, Len(s)))
    ELSE 0

RECURSIVE ReplaceNewLines(_)
\* newLineRe.ReplaceAllString(content, "<br>")
ReplaceNewLines(s) ==
    IF s = <<>> THEN <<>>
    ELSE LET k == NewLineRun(s)
         IN  IF k > 0 THEN <<"<", "b", "r", ">">> \o ReplaceNewLines(SubSeq(s, k + 1, Len(s)))
             ELSE <<Head(s)>> \o ReplaceNewLines(Tail(s))

\* getCellContent leaving the newlines of the content in place
getCellContentKeepNewLines(content, s, d) ==
    LET trimmed == TrimSpace(content)
        prefix  == IF IsFirstElementChild(d, s) THEN <<"|", " ">> ELSE <<" ">>
    IN  prefix \o trimmed \o <<" ", "|">>

\* getCellContent, lines 193-222
getCellContent(content, s, d) ==
    LET trimmed == TrimSpace(content)
        c2      == IF Find(d, s, "table") = <<>> THEN ReplaceNewLines(trimmed) ELSE trimmed
        prefix  == IF IsFirstElementChild(d, s) THEN <<"|", " ">> ELSE <<" ">>
    IN  prefix \o c2 \o <<" ", "|">>

\* the largest of count over the members of seq, 0 for none (lines 76-82)
RECURSIVE MaxOver(_, _, _)
MaxOver(d, seq, maxCount) ==
    IF seq = <<>> THEN maxCount
    ELSE LET count == Len(Children(d, Head(seq)))
         IN  MaxOver(d, Tail(seq), IF count > maxCount THEN count ELSE maxCount)

\* the table rule, lines 72-94
tableRule(content, s, d) ==
    LET noHeader == Len(Find(d, s, "thead")) = 0 /\ Len(Find(d, s, "th")) = 0
        maxCount == MaxOver(d, Find(d, s, "tr"), 0)
        header   == <<"|">> \o Repeat(<<" ", " ", " ", " ", " ", "|">>, maxCount)
        divider  == <<"|">> \o Repeat(<<" ", "-", "-", "-", " ", "|">>, maxCount)
        c2       == IF noHeader THEN header \o <<NL>> \o divider \o content ELSE content
    IN  Simple(<<NL, NL>> \o c2 \o <<NL, NL>>)

\* the th/td rule, lines 95-100
cellRule(content, s, d) == Simple(getCellContent(content, s, d))

\* s.Attr("align"): the attribute's value, "" when the cell has none
Align(d, s) == IF "align" \in DOMAIN d THEN d.align[s] ELSE ""

\* the divider token of a cell whatever its align attribute
BorderPlain(d, s) == <<"-", "-", "-">>

\* lines 108-118
Border(d, s) ==
    CASE Align(d, s) = "left"   -> <<":", "-", "-">>
      [] Align(d, s) = "right"  -> <<"-", "-", ":">>
      [] Align(d, s) = "center" -> <<":", "-", ":">>
      [] OTHER                  -> <<"-", "-", "-">>

RECURSIVE BorderCells(_, _)
\* lines 107-121: one divider cell per element child of the row
BorderCells(d, cells) ==
    IF cells = <<>> THEN <<>>
    ELSE getCellContent(Border(d, Head(cells)), Head(cells), d) \o BorderCells(d, Tail(cells))

\* the tr rule, lines 101-130
trRule(content, s, d) ==
    LET borderCells == IF isHeadingRow(d, s) THEN BorderCells(d, Children(d, s)) ELSE <<>>
        text        == <<NL>> \o content
    IN  Simple(IF borderCells # <<>> THEN text \o <<NL>> \o borderCells ELSE text)

\* a caller's Replacement for inline elements: it returns the string the
\* element stands for, d.text[s]
sayRule(content, s, d) == Simple(d.text[s])

----------------------------------------------------------------------------
(* The RobustCodeBlock plugin, plugin/robust_code_block.go *)

\* a simple Replacement that returned nil, seen as an AdvancedReplacement
Nil == [res |-> EmptyResult, skip |-> TRUE]

\* the upper-case letters that occur in the class attributes of the trees
Lower(c) ==
    CASE c = "G" -> "g"
      [] c = "L" -> "l"
      [] c = "O" -> "o"
      [] c = "N" -> "n"
      [] OTHER   -> c

\* strings.ToLower
ToLower(str) == [i \in 1 .. Len(str) |-> Lower(str[i])]

RECURSIVE Contains(_, _)
\* strings.Contains(s, sub)
Contains(str, sub) ==
    IF Len(sub) > Len(str) THEN FALSE
    ELSE IF SubSeq(str, 1, Len(sub)) = sub THEN TRUE
    ELSE Contains(Tail(str), sub)

\* strings.HasPrefix
HasPrefix(str, prefix) == Len(str) >= Len(prefix) /\ SubSeq(str, 1, Len(prefix)) = prefix

\* strings.TrimPrefix
TrimPrefix(str, prefix) ==
    IF HasPrefix(str, prefix) THEN SubSeq(str, Len(prefix) + 1, Len(str)) ELSE str

RECURSIVE FieldsFrom(_, _)
\* strings.Fields(s), cur being the field under way
FieldsFrom(str, cur) ==
    IF str = <<>> THEN (IF cur = <<>> THEN <<>> ELSE <<cur>>)
    ELSE IF Head(str) \in Space
         THEN (IF cur = <<>> THEN <<>> ELSE <<cur>>) \o FieldsFrom(Tail(str), <<>>)
    ELSE FieldsFrom(Tail(str), Append(cur, Head(str)))

Fields(str) == FieldsFrom(str, <<>>)

GutterWord == <<"g", "u", "t", "t", "e", "r">>
LineNumbersWord == <<"l", "i", "n", "e", "-", "n", "u", "m", "b", "e", "r", "s">>
LanguagePrefix == <<"l", "a", "n", "g", "u", "a", "g", "e", "-">>
LangPrefix == <<"l", "a", "n", "g", "-">>

\* the value of the node's class attribute, "" when it has none
ClassOf(d, n) == IF "class" \in DOMAIN d THEN d.class[n] ELSE <<>>

\* n.Data of a text node
TextOf(d, n) == IF "text" \in DOMAIN d THEN d.text[n] ELSE <<>>

\* a class attribute that is one of the two words and nothing else
isGutterWholeWord(class) == ToLower(class) \in {GutterWord, LineNumbersWord}

\* isGutter, lines 18-21
isGutter(class) ==
    LET lower == ToLower(class)
    IN  Contains(lower, GutterWord) \/ Contains(lower, LineNumbersWord)

RECURSIVE FirstLang(_)
\* lines 26-33: the loop over the fields
FirstLang(parts) ==
    IF parts = <<>> THEN <<>>
    ELSE IF HasPrefix(Head(parts), LanguagePrefix) THEN TrimPrefix(Head(parts), LanguagePrefix)
    ELSE IF HasPrefix(Head(parts), LangPrefix) THEN TrimPrefix(Head(parts), LangPrefix)
    ELSE FirstLang(Tail(parts))

\* detectLang, lines 23-35; sel = 0 is the empty selection
detectLang(d, sel) ==
    LET classes == IF sel = 0 THEN <<>> ELSE ClassOf(d, sel)
        lower   == ToLower(classes)
    IN  FirstLang(Fields(lower))

BlockIsh ==
    {"p", "div", "li", "tr", "table", "thead", "tbody", "tfoot", "section", "article",
     "blockquote", "pre", "h1", "h2", "h3", "h4", "h5", "h6"}

RECURSIVE collect(_, _), collectKids(_, _, _)
\* lines 61-63
collectKids(d, n, i) ==
    IF i > Len(d.kids[n]) THEN <<>>
    ELSE collect(d, d.kids[n][i]) \o collectKids(d, n, i + 1)
\* collect, lines 38-71: what the call writes to the builder
collect(d, n) ==
    IF ~IsElement(d, n) THEN TextOf(d, n)
    ELSE IF isGutter(ClassOf(d, n)) THEN <<>>
    ELSE (IF d.tag[n] = "br" THEN <<NL>> ELSE <<>>)
         \o collectKids(d, n, 1)
         \o (IF d.tag[n] \in BlockIsh THEN <<NL>> ELSE <<>>)

RECURSIVE TrimRightNL(_)
\* strings.TrimRight(s, "\n")
TrimRightNL(str) ==
    IF str # <<>> /\ str[Len(str)] = NL THEN TrimRightNL(SubSeq(str, 1, Len(str) - 1)) ELSE str

\* the backtick character, U+0060, which a string of this language cannot
\* hold: the one-character string made of it is written as this token
Backtick == "BT"

\* opt.Fence is the default, three backticks; fenceChar is its first rune
FenceChar == Backtick

RECURSIVE LongestRun(_, _, _, _)
\* the length of the longest run of c in str; cur is the run under way
LongestRun(str, c, cur, best) ==
    IF str = <<>> THEN best
    ELSE IF Head(str) = c
         THEN LongestRun(Tail(str), c, cur + 1, IF cur + 1 > best THEN cur + 1 ELSE best)
    ELSE LongestRun(Tail(str), c, 0, best)

\* md.CalculateCodeFence: one character more than the longest run in the
\* content, and three at least
CalculateCodeFence(fenceChar, content) ==
    LET repeat == LongestRun(content, fenceChar, 0, 0) + 1
    IN  Repeat(<<fenceChar>>, IF repeat < 3 THEN 3 ELSE repeat)

\* preRule looking at the class of the pre before that of the code element
preRulePreFirst(content, s, d) ==
    LET found    == Find(d, s, "code")
        codeSel  == IF found = <<>> THEN 0 ELSE Head(found)
        lang1    == detectLang(d, s)
        lang     == IF lang1 = <<>> THEN detectLang(d, codeSel) ELSE lang1
        code     == TrimRightNL(collect(d, s))
        fence    == CalculateCodeFence(FenceChar, code)
    IN  Simple(<<NL, NL>> \o fence \o lang \o <<NL>> \o code \o <<NL>> \o fence \o <<NL, NL>>)

\* preRule, lines 73-94
preRule(content, s, d) ==
    LET found    == Find(d, s, "code")
        codeSel  == IF found = <<>> THEN 0 ELSE Head(found)
        lang1    == detectLang(d, codeSel)
        lang     == IF lang1 = <<>> THEN detectLang(d, s) ELSE lang1
        code     == TrimRightNL(collect(d, s))
        fence    == CalculateCodeFence(FenceChar, code)
    IN  Simple(<<NL, NL>> \o fence \o lang \o <<NL>> \o code \o <<NL>> \o fence \o <<NL, NL>>)

RECURSIVE ReplaceCRLF(_)
\* strings.ReplaceAll(s, "\r\n", "\n")
ReplaceCRLF(str) ==
    IF str = <<>> THEN <<>>
    ELSE IF Len(str) >= 2 /\ str[1] = "\r" /\ str[2] = NL
         THEN <<NL>> \o ReplaceCRLF(SubSeq(str, 3, Len(str)))
    ELSE <<Head(str)>> \o ReplaceCRLF(Tail(str))

RECURSIVE TrimTrailingSpacesFrom(_, _)
\* md.TrimTrailingSpaces: the white space at the end of every line removed;
\* line is the line under way
TrimTrailingSpacesFrom(str, line) ==
    IF str = <<>> THEN TrimRight(line)
    ELSE IF Head(str) = NL
         THEN TrimRight(line) \o <<NL>> \o TrimTrailingSpacesFrom(Tail(str), <<>>)
    ELSE TrimTrailingSpacesFrom(Tail(str), Append(line, Head(str)))

TrimTrailingSpaces(str) == TrimTrailingSpacesFrom(str, <<>>)

\* codeRule, lines 96-123
codeRule(content, s, d) ==
    IF \E a \in Ancestors(d, s) : d.tag[a] = "pre" THEN Nil
    ELSE LET code  == TrimTrailingSpaces(ReplaceCRLF(collect(d, s)))
             fence == IF Contains(code, <<Backtick>>)
                      THEN (IF Contains(code, <<Backtick, Backtick>>)
                            THEN <<Backtick, Backtick, Backtick>>
                            ELSE <<Backtick, Backtick>>)
                      ELSE <<Backtick>>
         IN  Simple(fence \o code \o fence)

----------------------------------------------------------------------------
(* The TableCompat plugin, plugin/table.go:17-48 *)

\* the middle dot, U+00B7, written as this token
MiddleDot == "MD"

\* selec.Next(): the next sibling element of s, 0 when there is none
NextElement(d, s) ==
    LET p    == Parent(d, s)
        sibs == IF p = 0 THEN <<s>> ELSE Children(d, p)
        k    == CHOOSE i \in 1 .. Len(sibs) : sibs[i] = s
    IN  IF k < Len(sibs) THEN sibs[k + 1] ELSE 0

RECURSIVE TextContent(_, _), TextContentKids(_, _, _)
TextContentKids(d, n, i) ==
    IF i > Len(d.kids[n]) THEN <<>>
    ELSE TextContent(d, d.kids[n][i]) \o TextContentKids(d, n, i + 1)
\* selec.Text(): the data of the text nodes of the subtree, in document order
TextContent(d, n) ==
    IF n = 0 THEN <<>>
    ELSE IF ~IsElement(d, n) THEN TextOf(d, n)
    ELSE TextContentKids(d, n, 1)

\* the td/th rule, lines 20-36
compatCellRule(content, s, d) ==
    LET trimmed     == TrimSpace(content)
        next        == NextElement(d, s)
        nextIsEmpty == TrimSpace(TextContent(d, next)) = <<>>
    IN  IF trimmed = <<>> THEN Simple(trimmed)
        ELSE IF next # 0 /\ d.tag[next] \in {"td", "th"} /\ ~nextIsEmpty
             THEN Simple(trimmed \o <<" ", MiddleDot, " ">>)
        ELSE Simple(trimmed)

\* the tr rule, lines 37-45
compatRowRule(content, s, d) == Simple(content \o <<NL, NL>>)

----------------------------------------------------------------------------
\* rules[i](markdown, selec, opt)
RuleApply(kind, content, s, d) ==
    CASE kind \in RuleKinds -> TestRule(kind, content, s, d)
      [] kind = "li"        -> liRule(content, s, d)
      [] kind = "table"     -> tableRule(content, s, d)
      [] kind = "cell"      -> cellRule(content, s, d)
      [] kind = "tr"        -> trRule(content, s, d)
      [] kind = "say"       -> sayRule(content, s, d)
      [] kind = "pre"       -> preRule(content, s, d)
      [] kind = "code"      -> codeRule(content, s, d)
      [] kind = "compatCell" -> compatCellRule(content, s, d)
      [] kind = "compatRow"  -> compatRowRule(content, s, d)

----------------------------------------------------------------------------
(* Registry *)

\* Converter.getRuleFuncs: the tag's replacement list, or the marker "removed"
\* (nil in applyRules)
getRuleFuncs(nodeName) ==
    IF nodeName \in remove
    THEN [removed |-> TRUE, funcs |-> <<>>]
    ELSE [removed |-> FALSE,
          funcs |-> IF nodeName \in DOMAIN rules THEN rules[nodeName] ELSE <<>>]

----------------------------------------------------------------------------
(* applyRules, markdown.go:179-192 *)

\* the loop  for i := len(rules)-1; i >= 0; i--  from index i down; returns the
\* result, the useOriginal flag, the indexes invoked, in order (1-based), and
\* the content handed to each of them
RECURSIVE RulesLoop(_, _, _, _, _, _)
RulesLoop(funcs, i, markdown, s, d, calls) ==
    IF i = 0
    THEN [res |-> AdvancedResult(<<>>, markdown, <<>>), useOriginal |-> TRUE,
          calls |-> calls, passed |-> markdown]
    ELSE LET r == RuleApply(funcs[i], markdown, s, d)
         IN  IF ~r.skip
             THEN [res |-> r.res, useOriginal |-> FALSE,
                   calls |-> Append(calls, i), passed |-> markdown]
             ELSE RulesLoop(funcs, i - 1, markdown, s, d, Append(calls, i))

\* applyRules trying the replacements oldest-first
applyRulesOldestFirst(rs, markdown, s, d) ==
    LET N == Len(rs.funcs)
        r == RulesLoop([k \in 1 .. N |-> rs.funcs[N + 1 - k]], N, markdown, s, d, <<>>)
    IN  IF rs.removed
        THEN [res |-> EmptyResult, useOriginal |-> FALSE, calls |-> <<>>, passed |-> markdown]
        ELSE [r EXCEPT !.calls = [k \in 1 .. Len(r.calls) |-> N + 1 - r.calls[k]]]

\* applyRules; rs is what conv.getRuleFuncs(nodeName) returns at line 180
applyRules(rs, markdown, s, d) ==
    IF rs.removed
    THEN [res |-> EmptyResult, useOriginal |-> FALSE, calls |-> <<>>, passed |-> markdown]
    ELSE RulesLoop(rs.funcs, Len(rs.funcs), markdown, s, d, <<>>)

----------------------------------------------------------------------------
(* appendBlock and accumulate, markdown.go:194-211 *)

\* appendBlock separating the two fragments by a blank line
appendBlockBlankLine(current, addition) ==
    IF addition = <<>> THEN current
    ELSE IF current = <<>> THEN addition
    ELSE IF HasSuffixNL(current) THEN current \o <<NL>> \o addition
    ELSE current \o <<NL, NL>> \o addition

appendBlock(current, addition) ==
    IF addition = <<>> THEN current
    ELSE LET c1 == IF current # <<>> /\ ~HasSuffixNL(current)
                   THEN current \o <<NL>> ELSE current
             c2 == c1 \o addition
         IN  IF ~HasSuffixNL(addition) THEN c2 \o <<NL>> ELSE c2

\* accumulate forgetting the Footer
accumulateHeaderOnly(result, other) ==
    [result EXCEPT !.Header = appendBlock(result.Header, other.Header)]

accumulate(result, other) ==
    [result EXCEPT !.Header = appendBlock(result.Header, other.Header),
                   !.Footer = appendBlock(result.Footer, other.Footer)]

----------------------------------------------------------------------------
(* selecToMD and applyRulesToSelection, markdown.go:213-268 *)

\* A rendered subtree: the AdvancedResult, and a log with one entry per
\* applyRules invocation, in the order the invocations return.
Rendered(r, l) == [Header |-> r.Header, Markdown |-> r.Markdown, Footer |-> r.Footer, log |-> l]

LogEntry(s, d, ar) ==
    [node |-> s, tag |-> d.tag[s], content |-> ar.passed, calls |-> ar.calls,
     res |-> ar.res, useOriginal |-> ar.useOriginal]

\* lines 231-240 with the parent's builder handed to the child's rules
ChildStepParentContent(d, s, result, content) ==
    LET r1         == accumulate(result, content)
        ruleResult == applyRules(getRuleFuncs(d.tag[s]), result.Markdown, s, d)
        r2         == accumulate(r1, ruleResult.res)
        written    == IF ~ruleResult.useOriginal
                      THEN ruleResult.res.Markdown
                      ELSE content.Markdown
    IN  [r2 EXCEPT !.Markdown = @ \o written,
                   !.log = @ \o content.log \o <<LogEntry(s, d, ruleResult)>>]

\* lines 231-240 given the rule list rs that getRuleFuncs returns inside
\* applyRules: what the callback does with a child s that is not removed, once s
\* has been rendered to content; result.Markdown plays the part of builder
ChildStepWith(rs, d, s, result, content) ==
    LET r1         == accumulate(result, content)
        ruleResult == applyRules(rs, content.Markdown, s, d)
        r2         == accumulate(r1, ruleResult.res)
        written    == IF ~ruleResult.useOriginal
                      THEN ruleResult.res.Markdown
                      ELSE content.Markdown
    IN  [r2 EXCEPT !.Markdown = @ \o written,
                   !.log = @ \o content.log \o <<LogEntry(s, d, ruleResult)>>]

ChildStep(d, s, result, content) ==
    ChildStepWith(getRuleFuncs(d.tag[s]), d, s, result, content)

\* a call of selecToMD whose builder is a field that outlives the call: it
\* starts from the Markdown of the last conversion
NewFrameStale(n) ==
    [n |-> n, i |-> 1, result |-> Rendered(AdvancedResult(<<>>, out.Markdown, <<>>), <<>>)]

\* lines 214-215: a call of selecToMD on node n starts with its own empty
\* result and builder, at the first child
NewFrame(n) == [n |-> n, i |-> 1, result |-> Rendered(EmptyResult, <<>>)]

RECURSIVE selecToMD(_, _), EachChild(_, _, _, _)

\* selec.Contents().Each over the children of n from position i on
EachChild(d, n, i, result) ==
    IF i > Len(d.kids[n]) THEN result
    ELSE LET s            == d.kids[n][i]
             shouldRemove == d.tag[s] \in remove
         IN  IF shouldRemove
             THEN EachChild(d, n, i + 1, result)
             ELSE EachChild(d, n, i + 1, ChildStep(d, s, result, selecToMD(d, s)))

selecToMD(d, n) == EachChild(d, n, 1, NewFrame(n).result)

\* lines 253-267 given the rendered children of the root selection and the rule
\* list rs that getRuleFuncs returns inside applyRules
RootStepWith(rs, d, content) ==
    LET result     == AdvancedResult(content.Header, <<>>, content.Footer)
        ruleResult == applyRules(rs, content.Markdown, 1, d)
        r1         == accumulate(result, ruleResult.res)
    IN  Rendered([r1 EXCEPT !.Markdown = IF ~ruleResult.useOriginal
                                         THEN ruleResult.res.Markdown
                                         ELSE content.Markdown],
                 content.log \o <<LogEntry(1, d, ruleResult)>>)

applyRulesToSelection(d) ==
    RootStepWith(getRuleFuncs(d.tag[1]), d, selecToMD(d, 1))

----------------------------------------------------------------------------
(* The sequential engine: registration, then renders of arbitrary trees *)

RECURSIVE SumLen(_, _)
SumLen(f, S) ==
    IF S = {} THEN 0
    ELSE LET t == CHOOSE x \in S : TRUE IN Len(f[t]) + SumLen(f, S \ {t})

NoDoc == [n |-> 1, tag |-> <<"div">>, kids |-> << <<>> >>]

NoOut == Rendered(EmptyResult, <<>>)

NoAcc == [result |-> EmptyResult, prev |-> EmptyResult, other |-> EmptyResult, calls |-> 0]

FreeMutex == [readers |-> {}, writer |-> FALSE]

\* NewConverter with no default rules: empty registry, no hooks
Init ==
    /\ rules  = [t \in Tags |-> <<>>]
    /\ remove = {}
    /\ before = <<>>
    /\ mutex  = FreeMutex
    /\ doc    = NoDoc
    /\ pc     = "idle"
    /\ out    = NoOut
    /\ acc    = NoAcc
    /\ walk   = <<>>
    /\ gen    = 0

\* Converter.AddRules for one tag: the replacement is appended to the tag's list
AddRules(tag, kind) ==
    /\ pc = "idle"
    /\ SumLen(rules, Tags) < MaxRules
    /\ rules' = [rules EXCEPT ![tag] = Append(@, kind)]
    /\ UNCHANGED <<remove, before, mutex, doc, pc, out, acc, walk, gen>>

\* Converter.Remove for one tag
Remove(tag) ==
    /\ pc = "idle"
    /\ tag \notin remove
    /\ remove' = remove \cup {tag}
    /\ UNCHANGED <<rules, before, mutex, doc, pc, out, acc, walk, gen>>

\* one call of applyRulesToSelection on a parsed tree
Render(d) ==
    /\ pc = "idle"
    /\ doc' = d
    /\ out' = applyRulesToSelection(d)
    /\ pc' = "rendered"
    /\ UNCHANGED <<rules, remove, before, mutex, acc, walk, gen>>

\* the caller takes the result; the tree and the result are dropped
Return ==
    /\ pc = "rendered"
    /\ doc' = NoDoc
    /\ out' = NoOut
    /\ pc' = "idle"
    /\ UNCHANGED <<rules, remove, before, mutex, acc, walk, gen>>

Next ==
    \/ \E tag \in Tags, kind \in RuleKinds : AddRules(tag, kind)
    \/ \E tag \in Tags : Remove(tag)
    \/ \E d \in Docs : Render(d)
    \/ Return

Spec == Init /\ [][Next]_vars

----------------------------------------------------------------------------
(* Reading the log of a render *)

Entries(n) == { i \in 1 .. Len(out.log) : out.log[i].node = n }

Entry(n) == out.log[CHOOSE i \in Entries(n) : TRUE]

HasMark(str, n) == \E i \in 1 .. Len(str) : str[i] = Mark(n)

\* n is a removed node or lies below one
Dropped(d, n) == d.tag[n] \in remove \/ \E a \in Ancestors(d, n) : d.tag[a] \in remove

\* n is a removed node other than the root selection, or lies below one
DroppedBelowRoot(d, n) ==
    \/ n # 1 /\ d.tag[n] \in remove
    \/ \E a \in Ancestors(d, n) : a # 1 /\ d.tag[a] \in remove

NoTraceOf(n) ==
    /\ \A i \in Entries(n) : out.log[i].calls = <<>>
    /\ ~HasMark(out.Header, n)
    /\ ~HasMark(out.Markdown, n)
    /\ ~HasMark(out.Footer, n)

\* <<hi, hi-1, ..., lo>>
Downto(hi, lo) == [j \in 1 .. (hi + 1 - lo) |-> hi + 1 - j]

----------------------------------------------------------------------------
(* C1 *)

\* C1 (as claimed): nothing in the Header, Markdown or Footer returned by
\* applyRulesToSelection originates from a node whose tag is removed or from a
\* descendant of one, and no rule is invoked on such a node; the root
\* selection's own tag included.
C1_RemovedNeverRendered ==
    pc = "rendered" => \A n \in NodesOf(doc) : Dropped(doc, n) => NoTraceOf(n)

\* The same statement for removed nodes below the root selection, which
\* selecToMD checks before recursing.
RemovedBelowRootNeverRendered ==
    pc = "rendered" => \A n \in NodesOf(doc) : DroppedBelowRoot(doc, n) => NoTraceOf(n)

----------------------------------------------------------------------------
(* C2 *)

\* what the claim describes for one applyRules invocation e
PrecedenceAsClaimed(e) ==
    LET funcs   == rules[e.tag]
        N       == Len(funcs)
        nonskip == { i \in 1 .. N : ~RuleApply(funcs[i], e.content, e.node, doc).skip }
        k       == CHOOSE i \in nonskip : \A j \in nonskip : j <= i
    IN  IF nonskip # {}
        THEN /\ e.calls = Downto(N, k)
             /\ e.res = RuleApply(funcs[k], e.content, e.node, doc).res
             /\ ~e.useOriginal
        ELSE /\ e.calls = Downto(N, 1)
             /\ e.res = AdvancedResult(<<>>, e.content, <<>>)
             /\ e.useOriginal

\* C2 (as claimed): for a tag with N registered replacements applyRules
\* invokes rN, rN-1, ... and stops at the first that does not skip, returning
\* its result; if all skip, or N = 0, it returns the content unchanged, flagged
\* "use original".
C2_Original ==
    pc = "rendered" => \A i \in 1 .. Len(out.log) : PrecedenceAsClaimed(out.log[i])

\* C2 (amended): the same for every tag that is not in the removed set; for a
\* removed tag applyRules invokes no replacement and returns the empty result,
\* not flagged "use original".
C2_Precedence ==
    pc = "rendered" =>
        \A i \in 1 .. Len(out.log) :
            LET e == out.log[i]
            IN  IF e.tag \in remove
                THEN e.calls = <<>> /\ e.res = EmptyResult /\ ~e.useOriginal
                ELSE PrecedenceAsClaimed(e)

\* three replacements on one tag: the newest skipped, the second won, the
\* oldest was never invoked
C2_Witness ==
    /\ pc = "rendered"
    /\ \E i \in 1 .. Len(out.log) :
          /\ Len(rules[out.log[i].tag]) = 3
          /\ out.log[i].tag \notin remove
          /\ out.log[i].calls = <<3, 2>>
          /\ ~out.log[i].useOriginal

----------------------------------------------------------------------------
(* C4 *)

\* the nodes the walker renders, in the order they finish: the non-removed
\* children of n, each after its own subtree
RECURSIVE FinishOrder(_, _), FinishKids(_, _, _)
FinishKids(d, n, i) ==
    IF i > Len(d.kids[n]) THEN <<>>
    ELSE LET c == d.kids[n][i]
         IN  (IF d.tag[c] \in remove THEN <<>> ELSE FinishOrder(d, c) \o <<c>>)
             \o FinishKids(d, n, i + 1)
FinishOrder(d, n) == FinishKids(d, n, 1)

\* a fragment as it stands in the accumulated text: unchanged, and closed by a
\* newline when it does not end in one
Closed(f) == IF f = <<>> \/ HasSuffixNL(f) THEN f ELSE f \o <<NL>>

RECURSIVE JoinHeaders(_), JoinFooters(_)
JoinHeaders(ns) ==
    IF ns = <<>> THEN <<>> ELSE Closed(Entry(Head(ns)).res.Header) \o JoinHeaders(Tail(ns))
JoinFooters(ns) ==
    IF ns = <<>> THEN <<>> ELSE Closed(Entry(Head(ns)).res.Footer) \o JoinFooters(Tail(ns))

\* C4: every Header (Footer) fragment returned by the winning rule of a
\* rendered node, at any depth, stands in the final Header (Footer) exactly
\* once, unchanged, in the order the nodes finish rendering (children before
\* their parent, siblings in document order); nothing is lost or duplicated.
C4_FragmentsPropagate ==
    pc = "rendered" =>
        LET order == FinishOrder(doc, 1) \o <<1>>
        IN  /\ \A k \in 1 .. Len(order) : Cardinality(Entries(order[k])) = 1
            /\ out.Header = JoinHeaders(order)
            /\ out.Footer = JoinFooters(order)

\* a grandchild of the root, its parent and the root each returned a Header
C4_Witness ==
    /\ pc = "rendered"
    /\ doc.n = 3 /\ doc.kids[1] = <<2>> /\ doc.kids[2] = <<3>>
    /\ \A n \in 1 .. 3 : Entries(n) # {} /\ Entry(n).res.Header # <<>>
    /\ out.Header = <<"H", "3", NL, "H", "2", NL, "H", "1", NL>>

----------------------------------------------------------------------------
(* C5 *)

\* the fragment a rendered child contributes to its parent's Markdown
Fragment(c) ==
    IF Entry(c).useOriginal THEN Entry(c).content ELSE Entry(c).res.Markdown

RECURSIVE JoinFragments(_, _, _)
JoinFragments(d, n, i) ==
    IF i > Len(d.kids[n]) THEN <<>>
    ELSE LET c == d.kids[n][i]
         IN  (IF d.tag[c] \in remove THEN <<>> ELSE Fragment(c)) \o JoinFragments(d, n, i + 1)

\* C5: the Markdown selecToMD produces for a node, which is the content handed
\* to that node's rules, is the plain concatenation, in document order, of one
\* fragment per non-removed child: the Markdown of the child's winning rule, or
\* the child's own rendered Markdown when every rule skipped.
C5_PlainConcatenation ==
    pc = "rendered" =>
        \A i \in 1 .. Len(out.log) :
            out.log[i].content = JoinFragments(doc, out.log[i].node, 1)

\* a parent whose rules receive its two children's fragments, concatenated
C5_Witness ==
    /\ pc = "rendered"
    /\ doc.n = 3 /\ doc.kids[1] = <<2, 3>>
    /\ remove = {}
    /\ Entry(1).content = <<"2", "[", "]", "3", "[", "]">>
    /\ Entry(1).calls # <<>>

----------------------------------------------------------------------------
(* Accumulation on its own: an AdvancedResult that starts empty, as result  *)
(* does in selecToMD (markdown.go:214), accumulates rule results.           *)

FragsOfLen(k) == [1 .. k -> {"x", NL}]

Frags == UNION { FragsOfLen(k) : k \in 0 .. MaxFrag }

FooterFrags == { <<>>, <<"f", NL>> }

\* result.accumulate(other)
Accumulate(other) ==
    /\ acc.calls < MaxCalls
    /\ acc' = [result |-> accumulate(acc.result, other),
                prev   |-> acc.result,
                other  |-> other,
                calls  |-> acc.calls + 1]
    /\ UNCHANGED <<rules, remove, before, mutex, doc, pc, out, walk, gen>>

NextAcc == \E h \in Frags, f \in FooterFrags : Accumulate(AdvancedResult(h, <<"m">>, f))

SpecAcc == Init /\ [][NextAcc]_vars

\* a and b separated by exactly one empty line
BlankLineJoin(a, b) ==
    IF HasSuffixNL(a) THEN a \o <<NL>> \o b ELSE a \o <<NL, NL>> \o b

AsClaimedC3(a, b, r) ==
    /\ b = <<>> => r = a
    /\ a = <<>> => r = b
    /\ a # <<>> /\ b # <<>> => r = BlankLineJoin(a, b)

AsAmendedC3(a, b, r) ==
    /\ b = <<>> => r = a
    /\ b # <<>> => r = Closed(a) \o Closed(b)

----------------------------------------------------------------------------
(* Concurrent conversions on one Converter.  Each goroutine walks its own    *)
(* tree with selecToMD's steps, one action per access to the Converter; a   *)
(* further goroutine registers rules and removed tags.  The mutex is Go's   *)
(* sync.RWMutex: RLock waits while a writer holds it, Lock waits while      *)
(* anyone holds it.                                                         *)

Walkers == {"g1", "g2"}

ConcDocs ==
    { [n |-> 3, tag |-> <<"div", "a", "a">>,   kids |-> << <<2>>, <<3>>, <<>> >>],
      [n |-> 3, tag |-> <<"div", "a", "div">>, kids |-> << <<2, 3>>, <<>>, <<>> >>] }

NoSnap == [removed |-> FALSE, funcs |-> <<>>]

NewWalker ==
    [pc |-> "new", d |-> NoDoc, stack |-> <<>>, shouldRemove |-> FALSE, cur |-> 0,
     content |-> NoOut, snap |-> NoSnap, g0 |-> 0, ret |-> NoOut, clean |-> FALSE]

\* a Converter constructed with default rules for both tags
InitConc ==
    /\ rules  = [t \in Tags |-> IF t = "a" THEN <<"md">> ELSE <<"hf">>]
    /\ remove = {}
    /\ before = <<>>
    /\ mutex  = FreeMutex
    /\ doc    = NoDoc
    /\ pc     = "idle"
    /\ out    = NoOut
    /\ acc    = NoAcc
    /\ walk   = [g \in Walkers |-> NewWalker]
    /\ gen    = 0

Top(w) == w.stack[Len(w.stack)]

SetTop(w, f) == [w EXCEPT !.stack = [@ EXCEPT ![Len(w.stack)] = f]]

\* run the walker to its next access to the Converter: when the innermost
\* call has no child left it returns (line 243-244) and its caller goes on to
\* applyRules for that node; otherwise the callback starts on the next child
Settle(w) ==
    IF Top(w).i > Len(w.d.kids[Top(w).n])
    THEN [w EXCEPT !.stack   = SubSeq(@, 1, Len(@) - 1),
                   !.content = Top(w).result,
                   !.cur     = Top(w).n,
                   !.pc      = "g_rlock"]
    ELSE [w EXCEPT !.pc = "rlock"]

\* applyRulesToSelection is entered with a parsed tree (line 252)
Start(g, d) ==
    /\ walk[g].pc = "new"
    /\ walk' = [walk EXCEPT ![g] =
                    Settle([NewWalker EXCEPT !.d = d, !.stack = <<NewFrame(1)>>, !.g0 = gen])]
    /\ UNCHANGED <<rules, remove, before, mutex, doc, pc, out, acc, gen>>

\* the walker going on to read the removed set without taking the lock
WalkNoRLock(g) ==
    /\ walk[g].pc = "rlock"
    /\ walk' = [walk EXCEPT ![g].pc = "read"]
    /\ UNCHANGED <<rules, remove, before, mutex, doc, pc, out, acc, gen>>

\* line 221: conv.mutex.RLock()
WalkRLock(g) ==
    /\ walk[g].pc = "rlock"
    /\ ~mutex.writer
    /\ mutex' = [mutex EXCEPT !.readers = @ \cup {g}]
    /\ walk' = [walk EXCEPT ![g].pc = "read"]
    /\ UNCHANGED <<rules, remove, before, doc, pc, out, acc, gen>>

\* line 222: _, shouldRemove := conv.remove[nodeName]
WalkReadRemove(g) ==
    /\ walk[g].pc = "read"
    /\ LET w == walk[g]
           s == w.d.kids[Top(w).n][Top(w).i]
       IN  walk' = [walk EXCEPT ![g].shouldRemove = w.d.tag[s] \in remove,
                                ![g].pc = "runlock"]
    /\ UNCHANGED <<rules, remove, before, mutex, doc, pc, out, acc, gen>>

\* lines 223-230: conv.mutex.RUnlock(), then either return from the callback
\* or recurse into the child
WalkRUnlock(g) ==
    /\ walk[g].pc = "runlock"
    /\ mutex' = [mutex EXCEPT !.readers = @ \ {g}]
    /\ LET w == [walk[g] EXCEPT !.shouldRemove = FALSE]
           s == w.d.kids[Top(w).n][Top(w).i]
       IN  walk' = [walk EXCEPT ![g] =
                IF walk[g].shouldRemove
                THEN Settle(SetTop(w, [Top(w) EXCEPT !.i = @ + 1]))
                ELSE Settle([w EXCEPT !.stack = Append(@, NewFrame(s))])]
    /\ UNCHANGED <<rules, remove, before, doc, pc, out, acc, gen>>

\* getRuleFuncs: conv.mutex.RLock()
GetRLock(g) ==
    /\ walk[g].pc = "g_rlock"
    /\ ~mutex.writer
    /\ mutex' = [mutex EXCEPT !.readers = @ \cup {g}]
    /\ walk' = [walk EXCEPT ![g].pc = "g_read"]
    /\ UNCHANGED <<rules, remove, before, doc, pc, out, acc, gen>>

\* getRuleFuncs: the lookups in conv.remove and conv.rules
GetRead(g) ==
    /\ walk[g].pc = "g_read"
    /\ walk' = [walk EXCEPT ![g].snap = getRuleFuncs(walk[g].d.tag[walk[g].cur]),
                            ![g].pc = "g_runlock"]
    /\ UNCHANGED <<rules, remove, before, mutex, doc, pc, out, acc, gen>>

\* getRuleFuncs returns (deferred RUnlock); applyRules runs the rules it was
\* given and the caller uses the result: lines 185-191, then 234-240 for a
\* child or 259-267 for the root selection
GetRUnlock(g) ==
    /\ walk[g].pc = "g_runlock"
    /\ mutex' = [mutex EXCEPT !.readers = @ \ {g}]
    /\ LET w0 == walk[g]
           w  == [w0 EXCEPT !.snap = NoSnap, !.content = NoOut, !.cur = 0]
           r  == RootStepWith(w0.snap, w0.d, w0.content)
           f  == [Top(w0) EXCEPT
                     !.result = ChildStepWith(w0.snap, w0.d, w0.cur, @, w0.content),
                     !.i = @ + 1]
       IN  IF w0.stack = <<>>
           THEN /\ walk' = [walk EXCEPT ![g] =
                               [w EXCEPT !.ret = r, !.pc = "done", !.clean = (gen = w0.g0)]]
                /\ out' = r
           ELSE /\ walk' = [walk EXCEPT ![g] = Settle(SetTop(w, f))]
                /\ out' = out
    /\ UNCHANGED <<rules, remove, before, doc, pc, acc, gen>>

\* a registration takes the exclusive side: conv.mutex.Lock()
RegLock ==
    /\ pc = "idle"
    /\ gen < MaxWrites
    /\ mutex.readers = {} /\ ~mutex.writer
    /\ mutex' = [mutex EXCEPT !.writer = TRUE]
    /\ pc' = "locked"
    /\ UNCHANGED <<rules, remove, before, doc, out, acc, walk, gen>>

\* AddRules appends under the lock
RegAddRules(tag, kind) ==
    /\ pc = "locked"
    /\ rules' = [rules EXCEPT ![tag] = Append(@, kind)]
    /\ gen' = gen + 1
    /\ pc' = "written"
    /\ UNCHANGED <<remove, before, mutex, doc, out, acc, walk>>

\* Remove marks the tag under the lock
RegRemove(tag) ==
    /\ pc = "locked"
    /\ remove' = remove \cup {tag}
    /\ gen' = gen + 1
    /\ pc' = "written"
    /\ UNCHANGED <<rules, before, mutex, doc, out, acc, walk>>

\* the registration returns: conv.mutex.Unlock()
RegUnlock ==
    /\ pc = "written"
    /\ mutex' = [mutex EXCEPT !.writer = FALSE]
    /\ pc' = "idle"
    /\ UNCHANGED <<rules, remove, before, doc, out, acc, walk, gen>>

NextConc ==
    \/ \E g \in Walkers, d \in ConcDocs : Start(g, d)
    \/ \E g \in Walkers : WalkRLock(g)
    \/ \E g \in Walkers : WalkReadRemove(g)
    \/ \E g \in Walkers : WalkRUnlock(g)
    \/ \E g \in Walkers : GetRLock(g)
    \/ \E g \in Walkers : GetRead(g)
    \/ \E g \in Walkers : GetRUnlock(g)
    \/ RegLock
    \/ \E tag \in Tags, kind \in RuleKinds : RegAddRules(tag, kind)
    \/ \E tag \in Tags : RegRemove(tag)
    \/ RegUnlock

SpecConc == InitConc /\ [][NextConc]_vars

\* the walker's next step reads the registry
Reading(g) == walk[g].pc \in {"read", "g_read"}

\* a registration is between Lock and Unlock
Writing == pc \in {"locked", "written"}

Triple(r) == AdvancedResult(r.Header, r.Markdown, r.Footer)

\* the walker g ran from start to end over one registry
Clean(g) == walk[g].pc = "done" /\ walk[g].clean

StepsAgreeWithOperator ==
    \A g \in Walkers :
        (Clean(g) /\ gen = walk[g].g0) => walk[g].ret = applyRulesToSelection(walk[g].d)

----------------------------------------------------------------------------
(* Before hooks.  ConvertString parses, runs the hooks in registration      *)
(* order on the tree, then renders it.                                      *)

Without(seq, x) == SelectSeq(seq, LAMBDA y : y # x)

InsertAfter(seq, t, x) ==
    LET k == CHOOSE i \in 1 .. Len(seq) : seq[i] = t
    IN  SubSeq(seq, 1, k) \o <<x>> \o SubSeq(seq, k + 1, Len(seq))

InsertBefore(seq, t, x) ==
    LET k == CHOOSE i \in 1 .. Len(seq) : seq[i] = t
    IN  SubSeq(seq, 1, k - 1) \o <<x>> \o SubSeq(seq, k, Len(seq))

\* the caption put in front of its table instead of after it
BeforeSelection(d, t, s) ==
    LET cut == [d EXCEPT !.kids[Parent(d, s)] = Without(@, s)]
        q   == Parent(d, t)
    IN  IF q = 0 THEN cut
        ELSE [cut EXCEPT !.kids[q] = InsertBefore(@, t, s)]

\* goquery's t.AfterSelection(s) for single nodes: s is taken out of its parent
\* and, when t has a parent, put back as t's next sibling
AfterSelection(d, t, s) ==
    LET cut == [d EXCEPT !.kids[Parent(d, s)] = Without(@, s)]
        q   == Parent(d, t)
    IN  IF q = 0 THEN cut
        ELSE [cut EXCEPT !.kids[q] = InsertAfter(@, t, s)]

\* table.go:59-67, the callback of Each over the captions found
RECURSIVE MoveCaptions(_, _)
MoveCaptions(d, cs) ==
    IF cs = <<>> THEN d
    ELSE LET s      == Head(cs)
             parent == Parent(d, s)
         IN  IF parent = 0 \/ d.tag[parent] # "table"
             THEN MoveCaptions(d, Tail(cs))
             ELSE MoveCaptions(AfterSelection(d, parent, s), Tail(cs))

\* the Table plugin's Before hook (table.go:58-68)
captionHook(d) == MoveCaptions(d, Find(d, 1, "caption"))

\* the hook of list_regression_test.go:66-68:
\* selec.Find("ol").First().AppendHtml("<li>b</li>")
appendLiHook(d) ==
    LET ols == Find(d, 1, "ol")
    IN  IF ols = <<>> THEN d
        ELSE [n    |-> d.n + 1,
              tag  |-> [i \in 1 .. (d.n + 1) |-> IF i <= d.n THEN d.tag[i] ELSE "li"],
              kids |-> [i \in 1 .. (d.n + 1) |->
                           IF i = Head(ols) THEN Append(d.kids[i], d.n + 1)
                           ELSE IF i <= d.n THEN d.kids[i] ELSE <<>>]]

HookKinds == {"caption", "appendLi"}

HookApply(kind, d) == IF kind = "caption" THEN captionHook(d) ELSE appendLiHook(d)

HookTags == {"table", "caption", "ol", "li"}

\* what the HTML parser lets stand inside a table, of these tags: captions
Parsed(d) ==
    \A p \in NodesOf(d) : d.tag[p] = "table" =>
        \A i \in 1 .. Len(d.kids[p]) : d.tag[d.kids[p][i]] = "caption"

\* parsed documents: node 1 is the document, never a table
HookDocs ==
    { d \in UNION { { MkDoc(k, p, t) : p \in Shapes(k),
                                       t \in { u \in [1 .. k -> HookTags \cup {"div"}] : u[1] = "div" } }
                    : k \in 1 .. MaxNodes } : Parsed(d) }

Idle == [pc |-> "idle", i |-> 0, events |-> <<>>, orig |-> NoDoc]

\* a Converter with the list-item rule and rules that mark tables and captions
InitHooks ==
    /\ rules  = [t \in HookTags \cup {"div"} |->
                    IF t = "li" THEN <<"li">>
                    ELSE IF t \in {"table", "caption"} THEN <<"md">> ELSE <<>>]
    /\ remove = {}
    /\ before = <<>>
    /\ mutex  = FreeMutex
    /\ doc    = NoDoc
    /\ pc     = "idle"
    /\ out    = NoOut
    /\ acc    = NoAcc
    /\ walk   = Idle
    /\ gen    = 0

\* Converter.Before: the hook is appended to the hook list
Before(kind) ==
    /\ walk.pc = "idle"
    /\ Len(before) < MaxHooks
    /\ before' = Append(before, kind)
    /\ UNCHANGED <<rules, remove, mutex, doc, pc, out, acc, walk, gen>>

\* ConvertString: the input is parsed
ConvertString(d) ==
    /\ walk.pc = "idle"
    /\ doc' = d
    /\ out' = NoOut
    /\ walk' = [pc |-> "hooks", i |-> 1, events |-> <<>>, orig |-> d]
    /\ UNCHANGED <<rules, remove, before, mutex, pc, acc, gen>>

\* Convert: the next hook runs on the tree
RunHook ==
    /\ walk.pc = "hooks"
    /\ walk.i <= Len(before)
    /\ doc' = HookApply(before[walk.i], doc)
    /\ walk' = [walk EXCEPT !.i = @ + 1, !.events = Append(@, walk.i)]
    /\ UNCHANGED <<rules, remove, before, mutex, pc, out, acc, gen>>

\* Convert: every hook has run; the tree is rendered
Walk ==
    /\ walk.pc = "hooks"
    /\ walk.i > Len(before)
    /\ out' = applyRulesToSelection(doc)
    /\ walk' = [walk EXCEPT !.pc = "rendered", !.events = Append(@, 0)]
    /\ UNCHANGED <<rules, remove, before, mutex, doc, pc, acc, gen>>

\* ConvertString returns
Returned ==
    /\ walk.pc = "rendered"
    /\ doc' = NoDoc
    /\ out' = NoOut
    /\ walk' = Idle
    /\ UNCHANGED <<rules, remove, before, mutex, pc, acc, gen>>

NextHooks ==
    \/ \E kind \in HookKinds : Before(kind)
    \/ \E d \in HookDocs : ConvertString(d)
    \/ RunHook
    \/ Walk
    \/ Returned

SpecHooks == InitHooks /\ [][NextHooks]_vars

Position(d, s) == Index(d, s) + 1

\* c is a later sibling of t
FollowingSibling(d, c, t) ==
    /\ Parent(d, c) # 0
    /\ Parent(d, c) = Parent(d, t)
    /\ Position(d, c) > Position(d, t)

\* the captions that were direct children of a table when the input was parsed
TableCaptions(d) ==
    { c \in NodesOf(d) : d.tag[c] = "caption" /\ Parent(d, c) # 0 /\ d.tag[Parent(d, c)] = "table" }

\* the nodes the hooks added
Added == { n \in NodesOf(doc) : n > walk.orig.n }

\* C8: in every conversion each registered Before hook runs exactly once, in
\* registration order, and all have run before anything is rendered; what a
\* hook changes in the tree is seen by the later hooks and by the walk: every
\* list item a hook appended is rendered, numbered by its place in the list
\* (after the items appended before it), and with the Table plugin's hook
\* registered every caption that was a direct child of a table is rendered as
\* a following sibling of that table, not inside it.
C8_HooksBeforeWalk ==
    /\ walk.pc = "hooks" => out = NoOut /\ walk.events = [k \in 1 .. (walk.i - 1) |-> k]
    /\ walk.pc = "rendered" =>
          /\ walk.events = [k \in 1 .. Len(before) |-> k] \o <<0>>
          /\ \A n \in Added :
                /\ Cardinality(Entries(n)) = 1
                /\ doc.tag[Parent(doc, n)] = "ol"
                /\ Entry(n).res.Markdown = <<ToString(Position(doc, n)), ".", " ", NL>>
                /\ \A m \in Added : m < n => Position(doc, m) < Position(doc, n)
          /\ Cardinality(Added) =
                IF Find(walk.orig, 1, "ol") = <<>> THEN 0
                ELSE Cardinality({ k \in 1 .. Len(before) : before[k] = "appendLi" })
          /\ (\E k \in 1 .. Len(before) : before[k] = "caption") =>
                \A c \in TableCaptions(walk.orig) :
                    /\ FollowingSibling(doc, c, Parent(walk.orig, c))
                    /\ Cardinality(Entries(c)) = 1
                    /\ ~HasMark(Entry(Parent(walk.orig, c)).content, c)

\* the hook of the list test registered twice on <ol><li>a</li></ol>: the
\* second hook appended after the first one's item, and the walk numbered the
\* three items 1, 2, 3
C8_Witness ==
    /\ walk.pc = "rendered"
    /\ before = <<"appendLi", "appendLi">>
    /\ walk.orig = [n |-> 3, tag |-> <<"div", "ol", "li">>, kids |-> << <<2>>, <<3>>, <<>> >>]
    /\ doc.kids[2] = <<3, 4, 5>>
    /\ out.Markdown = <<"1", ".", " ", NL, "2", ".", " ", NL, "3", ".", " ", NL>>

----------------------------------------------------------------------------
(* The Table plugin on tables.  A table is built from a list of items: a    *)
(* row of cells inside a section, or a blank thead.  Consecutive rows with   *)
(* the same section name share the section; "tbody2" is a second tbody, and  *)
(* "none" puts the row directly under the table.  As in indented HTML, a     *)
(* whitespace text node precedes the first row of a section and the first    *)
(* cell of a row.                                                            *)

MaxRows == 2
MaxCells == 3

TableTags == {"table", "thead", "tbody", "tr", "th", "td", "#text"}

Wraps == {"none", "thead", "tbody", "tbody2"}

\* which cells of a row are th: none, all, the first only, the last only
Patterns == {"td", "th", "first", "last"}

CellTag(pat, k, i) ==
    CASE pat = "td"    -> "td"
      [] pat = "th"    -> "th"
      [] pat = "first" -> IF i = 1 THEN "th" ELSE "td"
      [] pat = "last"  -> IF i = k THEN "th" ELSE "td"

CellRows ==
    { [i \in 1 .. k |-> CellTag(pat, k, i)] : k \in 0 .. MaxCells, pat \in Patterns }

Blank == [wrap |-> "blank", cells |-> <<>>]

Items == { [wrap |-> w, cells |-> c] : w \in Wraps, c \in CellRows } \cup {Blank}

\* node d.n + 1 with tag t appended as the last child of p
AddNode(d, p, t) ==
    [n    |-> d.n + 1,
     tag  |-> Append(d.tag, t),
     kids |-> Append([d.kids EXCEPT ![p] = Append(@, d.n + 1)], <<>>)]

RECURSIVE AddCells(_, _, _)
AddCells(d, row, cells) ==
    IF cells = <<>> THEN d ELSE AddCells(AddNode(d, row, Head(cells)), row, Tail(cells))

RECURSIVE BuildTable(_, _, _, _)
BuildTable(items, d, lastWrap, lastSec) ==
    IF items = <<>> THEN d
    ELSE LET it == Head(items)
         IN  IF it = Blank
             THEN LET d1 == AddNode(d, 1, "thead")
                  IN  BuildTable(Tail(items), d1, "blank", d1.n)
             ELSE LET newSec == it.wrap # "none" /\ it.wrap # lastWrap
                      d1     == IF newSec
                                THEN AddNode(AddNode(d, 1, IF it.wrap = "thead" THEN "thead" ELSE "tbody"),
                                             d.n + 1, "#text")
                                ELSE d
                      sec    == IF it.wrap = "none" THEN 1
                                ELSE IF newSec THEN d.n + 1 ELSE lastSec
                      d2     == AddNode(d1, sec, "tr")
                      d3     == AddNode(d2, d2.n, "#text")
                  IN  BuildTable(Tail(items), AddCells(d3, d2.n, it.cells), it.wrap, sec)

EmptyTable == [n |-> 1, tag |-> <<"table">>, kids |-> << <<>> >>]

\* the tables of at most rows items
TableDocs(rows) ==
    { BuildTable(items, EmptyTable, "blank", 0) :
        items \in UNION { [1 .. k -> Items] : k \in 0 .. rows } }

\* NewConverter without the default rules
InitTable ==
    /\ rules  = [t \in TableTags |-> <<>>]
    /\ remove = {}
    /\ before = <<>>
    /\ mutex  = FreeMutex
    /\ doc    = NoDoc
    /\ pc     = "idle"
    /\ out    = NoOut
    /\ acc    = NoAcc
    /\ walk   = <<>>
    /\ gen    = 0

\* Converter.Use(plugin.Table()): the caption hook is registered and the three
\* rules are added (plugin/table.go:56-132)
UseTable ==
    /\ pc = "idle"
    /\ rules["table"] = <<>>
    /\ before' = Append(before, "caption")
    /\ rules' = [rules EXCEPT !["table"] = Append(@, "table"),
                              !["th"]    = Append(@, "cell"),
                              !["td"]    = Append(@, "cell"),
                              !["tr"]    = Append(@, "tr")]
    /\ UNCHANGED <<remove, mutex, doc, pc, out, acc, walk, gen>>

\* applyRulesToSelection on one of the tables
RenderTable == pc = "idle" /\ \E d \in TableDocs(MaxRows) : Render(d)

NextTable ==
    \/ UseTable
    \/ RenderTable
    \/ Return

SpecTable == InitTable /\ [][NextTable]_vars

TableInstalled == rules["table"] = <<"table">>

\* a tree the HTML parser builds: every row lies in a section
TableParsed(d) ==
    \A r \in NodesOf(d) : d.tag[r] = "tr" => d.tag[Parent(d, r)] \in {"thead", "tbody"}

\* the th and td children of a row
Cells(d, r) == SelectSeq(d.kids[r], LAMBDA c : d.tag[c] \in {"th", "td"})

RowsOf(d) == { r \in NodesOf(d) : d.tag[r] = "tr" }

RECURSIVE Lines(_, _)
\* strings.Split(s, "\n"), cur being the line under way
Lines(s, cur) ==
    IF s = <<>> THEN <<cur>>
    ELSE IF Head(s) = NL THEN <<cur>> \o Lines(Tail(s), <<>>)
    ELSE Lines(Tail(s), Append(cur, Head(s)))

IsTableLine(l) == l # <<>> /\ l[1] = "|" /\ l[Len(l)] = "|"

IsDividerLine(l) ==
    /\ IsTableLine(l)
    /\ \A i \in 1 .. Len(l) : l[i] \in {"|", " ", "-", ":"}
    /\ \E i \in 1 .. Len(l) : l[i] = "-"

\* some line of the table is followed by a divider line
CarriesHeaderAndDivider(md) ==
    LET ls == Lines(md, <<>>)
    IN  \E i \in 1 .. (Len(ls) - 1) : IsTableLine(ls[i]) /\ IsDividerLine(ls[i + 1])

\* the largest number of cells in a row of the table
MaxCellCount(d) ==
    IF RowsOf(d) = {} THEN 0
    ELSE CHOOSE k \in { Len(Cells(d, r)) : r \in RowsOf(d) } :
            \A r \in RowsOf(d) : Len(Cells(d, r)) <= k

HasHeaderRow(d) ==
    \/ \E n \in NodesOf(d) : d.tag[n] \in {"thead", "th"}
    \/ \E r \in RowsOf(d) : isHeadingRow(d, r)

SynthesizedHeader(k) ==
    <<"|">> \o Repeat(<<" ", " ", " ", " ", " ", "|">>, k) \o <<NL>> \o
    <<"|">> \o Repeat(<<" ", "-", "-", "-", " ", "|">>, k)

HeadingRowAsClaimed(d, r) ==
    LET p == Parent(d, r)
    IN  \/ d.tag[p] = "thead"
        \/ /\ \A i \in 1 .. Len(Cells(d, r)) : d.tag[Cells(d, r)[i]] = "th"
           /\ IsFirstElementChild(d, r)
           /\ \/ d.tag[p] = "table"
              \/ /\ d.tag[p] = "tbody"
                 /\ Parent(d, p) # 0
                 /\ d.tag[Parent(d, p)] = "table"
                 /\ IsFirstElementChild(d, p)

\* C10: for a row that has a cell, isHeadingRow(row) is true exactly when the
\* row's parent is a thead, or every cell of the row is a th and the row is the
\* first element child of the table or of the first tbody, that tbody being
\* the table's first element child; the tr rule appends a divider line to
\* exactly these rows.
C10_HeadingRowExactly ==
    (pc = "rendered" /\ TableInstalled /\ TableParsed(doc)) =>
        \A r \in RowsOf(doc) :
            (Len(Cells(doc, r)) > 0) =>
                /\ isHeadingRow(doc, r) = HeadingRowAsClaimed(doc, r)
                /\ HeadingRowAsClaimed(doc, r) <=>
                      \E l \in 1 .. Len(Lines(Entry(r).res.Markdown, <<>>)) :
                          IsDividerLine(Lines(Entry(r).res.Markdown, <<>>)[l])

----------------------------------------------------------------------------
(* The Table plugin on the cells of one row.  The tree is                   *)
(*   table > section > tr > [input] cell ... cell                           *)
(* where a cell holds a span, for which the caller registered a Replacement  *)
(* returning the span's string, and may hold a nested table after it.  One   *)
(* cell of the row, the focus, varies in string or in align attribute; the   *)
(* others say " y\n" and have no align attribute.                            *)

MaxCols == 2
MaxText == 4

CellTags == {"table", "thead", "tbody", "tr", "th", "td", "span", "input"}

Alphabet == {"x", NL, "\r"}

Texts == UNION { [1 .. k -> Alphabet] : k \in 0 .. MaxText }

Aligns == {"left", "right", "center", "justify"}

\* what the focus cell has: a string and no align attribute, or the others'
\* string and an align attribute
Varied ==
    { [text |-> t, align |-> ""] : t \in Texts } \cup
    { [text |-> <<" ", "y", NL>>, align |-> a] : a \in Aligns }

OtherText == <<" ", "y", NL>>

\* node d.n + 1 with tag t, string txt and align attribute al ("" for none)
\* appended as the last child of p
AddNodeWith(d, p, t, txt, al) ==
    [n     |-> d.n + 1,
     tag   |-> Append(d.tag, t),
     kids  |-> Append([d.kids EXCEPT ![p] = Append(@, d.n + 1)], <<>>),
     text  |-> Append(d.text, txt),
     align |-> Append(d.align, al)]

AddElement(d, p, t) == AddNodeWith(d, p, t, <<>>, "")

\* <table><tbody><tr><td><span>z</span></td></tr></tbody></table> under p
AddNestedTable(d, p) ==
    LET d1 == AddElement(d, p, "table")
        d2 == AddElement(d1, d1.n, "tbody")
        d3 == AddElement(d2, d2.n, "tr")
        d4 == AddElement(d3, d3.n, "td")
    IN  AddNodeWith(d4, d4.n, "span", <<"z">>, "")

\* a cell under row: its span, then the nested table if it has one
AddCell(d, row, t, txt, al, nested) ==
    LET d1 == AddNodeWith(d, row, t, <<>>, al)
        d2 == AddNodeWith(d1, d1.n, "span", txt, "")
    IN  IF nested THEN AddNestedTable(d2, d1.n) ELSE d2

RECURSIVE AddRowCells(_, _, _, _)
\* cells i .. c.k of the row
AddRowCells(d, row, c, i) ==
    IF i > c.k THEN d
    ELSE LET focus == i = c.j
             txt   == IF focus THEN c.vary.text ELSE OtherText
             al    == IF focus THEN c.vary.align ELSE ""
         IN  AddRowCells(AddCell(d, row, c.tag, txt, al, focus /\ c.nested), row, c, i + 1)

EmptyCellTable ==
    [n |-> 1, tag |-> <<"table">>, kids |-> << <<>> >>, text |-> << <<>> >>, align |-> <<"">>]

RowDoc(c) ==
    LET d1 == AddElement(EmptyCellTable, 1, c.sec)
        d2 == AddElement(d1, 2, "tr")
        d3 == IF c.lead THEN AddElement(d2, 3, "input") ELSE d2
    IN  AddRowCells(d3, 3, c, 1)

\* the rows of at most cols cells
RowDocs(cols) ==
    { RowDoc([sec |-> sec, tag |-> tag, k |-> k, j |-> j, vary |-> v,
              nested |-> nested, lead |-> lead]) :
        sec \in {"thead", "tbody"}, tag \in {"th", "td"},
        k \in 1 .. cols, j \in 1 .. cols, v \in Varied,
        nested \in BOOLEAN, lead \in BOOLEAN }

\* a Converter on which the caller registered the Replacement for span
InitCells ==
    /\ rules  = [t \in CellTags |-> IF t = "span" THEN <<"say">> ELSE <<>>]
    /\ remove = {}
    /\ before = <<>>
    /\ mutex  = FreeMutex
    /\ doc    = NoDoc
    /\ pc     = "idle"
    /\ out    = NoOut
    /\ acc    = NoAcc
    /\ walk   = <<>>
    /\ gen    = 0

\* applyRulesToSelection on one of the rows
RenderRow == pc = "idle" /\ \E d \in RowDocs(MaxCols) : Render(d)

NextCells ==
    \/ UseTable
    \/ RenderRow
    \/ Return

SpecCells == InitCells /\ [][NextCells]_vars

\* str without the white space at its two ends
Trimmed(str) ==
    LET Inked == { i \in 1 .. Len(str) : str[i] \notin Space }
    IN  IF Inked = {} THEN <<>>
        ELSE SubSeq(str, CHOOSE i \in Inked : \A j \in Inked : i <= j,
                         CHOOSE i \in Inked : \A j \in Inked : j <= i)

\* position i of str belongs to a line end: a newline, or the carriage return
\* in front of one
InNewLines(str, i) ==
    \/ str[i] = NL
    \/ str[i] = "\r" /\ i < Len(str) /\ str[i + 1] = NL

RECURSIVE JoinPieces(_)
JoinPieces(ps) == IF ps = <<>> THEN <<>> ELSE Head(ps) \o JoinPieces(Tail(ps))

\* str with every run of line ends replaced by one <br>
RunsReplaced(str) ==
    JoinPieces([i \in 1 .. Len(str) |->
        IF ~InNewLines(str, i) THEN <<str[i]>>
        ELSE IF i > 1 /\ InNewLines(str, i - 1) THEN <<>>
        ELSE <<"<", "b", "r", ">">>])

CellsOf(d) == { c \in NodesOf(d) : d.tag[c] \in {"th", "td"} }

HasNestedTable(d, c) == \E t \in NodesOf(d) : d.tag[t] = "table" /\ c \in Ancestors(d, t)

\* what the claim says a cell renders as
CellAsClaimed(d, c, content) ==
    (IF IsFirstElementChild(d, c) THEN <<"|", " ">> ELSE <<" ">>)
    \o (IF HasNestedTable(d, c) THEN Trimmed(content) ELSE RunsReplaced(Trimmed(content)))
    \o <<" ", "|">>

EveryCellAsClaimed ==
    \A c \in CellsOf(doc) :
        /\ Cardinality(Entries(c)) = 1
        /\ Entry(c).res.Markdown = CellAsClaimed(doc, c, Entry(c).content)

\* the cells of row r render to one line that starts with "| ", and one cell
\* of the row carries the "| " prefix
OneLineRow(r) ==
    /\ \A i \in 1 .. Len(Entry(r).content) : Entry(r).content[i] # NL
    /\ SubSeq(Entry(r).content, 1, 2) = <<"|", " ">>
    /\ Cardinality({ i \in 1 .. Len(Cells(doc, r)) :
                        Head(Entry(Cells(doc, r)[i]).res.Markdown) = "|" }) = 1

\* C11 as stated: every cell renders as prefix, trimmed content with its
\* newline runs replaced by <br> unless the cell holds a nested table, and " |";
\* and every rendered row that has a cell is a single line starting with "| "
\* with exactly one cell carrying that prefix.
C11_Original ==
    (pc = "rendered" /\ TableInstalled) =>
        /\ EveryCellAsClaimed
        /\ \A r \in RowsOf(doc) : Cells(doc, r) # <<>> => OneLineRow(r)

\* C11: every cell renders as prefix, trimmed content with its newline runs
\* replaced by <br> unless the cell holds a nested table, and " |", the prefix
\* being "| " exactly for a cell that is the first element child of its row;
\* a row whose first element child is a cell and none of whose cells holds a
\* nested table renders its cells as a single line starting with "| " with
\* exactly one cell carrying that prefix.
C11_CellRendering ==
    (pc = "rendered" /\ TableInstalled) =>
        /\ EveryCellAsClaimed
        /\ \A r \in RowsOf(doc) :
              (/\ Cells(doc, r) # <<>>
               /\ Head(Children(doc, r)) = Head(Cells(doc, r))
               /\ \A i \in 1 .. Len(Cells(doc, r)) : ~HasNestedTable(doc, Cells(doc, r)[i]))
              => OneLineRow(r)

\* a first cell saying "x\n\nx" was rendered as "| x<br>x |"
C11_Witness ==
    /\ pc = "rendered"
    /\ TableInstalled
    /\ \E c \in CellsOf(doc) :
          /\ Entry(c).content = <<"x", NL, NL, "x">>
          /\ Entry(c).res.Markdown = <<"|", " ", "x", "<", "b", "r", ">", "x", " ", "|">>

\* the divider token the claim gives for an align attribute
TokenAsClaimed(al) ==
    IF al = "left" THEN <<":", "-", "-">>
    ELSE IF al = "right" THEN <<"-", "-", ":">>
    ELSE IF al = "center" THEN <<":", "-", ":">>
    ELSE <<"-", "-", "-">>

\* one divider cell for each node of ns, in order, with the prefix and suffix
\* of content cells
DividerCells(d, ns) ==
    JoinPieces([i \in 1 .. Len(ns) |->
        (IF IsFirstElementChild(d, ns[i]) THEN <<"|", " ">> ELSE <<" ">>)
        \o TokenAsClaimed(Align(d, ns[i])) \o <<" ", "|">>])

\* the row rendered as a newline and its content, followed when it is a
\* heading row by a line of one divider cell for each node of ns
RowWithDivider(r, ns) ==
    /\ Cardinality(Entries(r)) = 1
    /\ Entry(r).res.Markdown =
          <<NL>> \o Entry(r).content \o
          (IF isHeadingRow(doc, r) /\ ns # <<>> THEN <<NL>> \o DividerCells(doc, ns) ELSE <<>>)

\* C12 as stated: a row renders as a newline followed by its content and, if
\* and only if it is a heading row, one further line of exactly one divider
\* cell per direct child cell of the row, in cell order, with the token of the
\* cell's align attribute and the prefix and suffix of content cells.
C12_Original ==
    (pc = "rendered" /\ TableInstalled) =>
        \A r \in RowsOf(doc) : Cells(doc, r) # <<>> => RowWithDivider(r, Cells(doc, r))

\* C12: a row renders as a newline followed by its content and, if and only
\* if it is a heading row with an element child, one further line of exactly
\* one divider cell per element child of the row, cell or not, in document
\* order, with the token of the child's align attribute (":--" for left,
\* "--:" for right, ":-:" for center, "---" otherwise) and the prefix and
\* suffix of content cells; a non-heading row never emits a divider line.
C12_RowRendering ==
    (pc = "rendered" /\ TableInstalled) =>
        \A r \in RowsOf(doc) : RowWithDivider(r, Children(doc, r))

\* a thead row of two th, the first with align="center", was rendered with the
\* divider line "| :-: | --- |"
C12_Witness ==
    /\ pc = "rendered"
    /\ TableInstalled
    /\ doc.tag[2] = "thead"
    /\ Len(doc.kids[3]) = 2
    /\ doc.align[doc.kids[3][1]] = "center"
    /\ Entry(3).res.Markdown =
          <<NL>> \o Entry(3).content \o
          <<NL, "|", " ", ":", "-", ":", " ", "|", " ", "-", "-", "-", " ", "|">>

----------------------------------------------------------------------------
(* The RobustCodeBlock plugin on three families of trees.                   *)
(*   walk:   div > pre > [code >] item ... item, the items being text, br,   *)
(*           a div or span around a text, or a div holding a span around a   *)
(*           text and then a text; the wrappers and the pre carry a class    *)
(*   lang:   div > pre > [code >] text, pre and code carrying a class        *)
(*   inline: p > code > text                                                 *)
(* A text node of the first two families says its own number, so that the    *)
(* origin of every letter of the output can be told.                         *)

MaxItems == 2
MaxCode == 3

CodeTags == {"div", "p", "pre", "code", "span", "br", "#text"}

WrapClasses ==
    { <<>>,
      GutterWord,
      <<"m", "y", " ", "L", "i", "n", "e", "-", "N", "u", "m", "b", "e", "r", "s", "1">>,
      <<"g", "u", "t", "e", "r">> }

LangClasses ==
    { <<>>,
      LanguagePrefix \o <<"g", "o">>,
      <<"h", "l", " ">> \o LangPrefix \o <<"j", "s", " ">> \o LanguagePrefix \o <<"g", "o">>,
      <<"L", "a", "n", "g", "u", "a", "g", "e", "-", "G", "O">>,
      LanguagePrefix,
      <<"x">> \o LangPrefix \o <<"g", "o">> }

ItemKinds ==
    { [kind |-> "text", tag |-> "#text", class |-> <<>>, nl |-> nl] : nl \in BOOLEAN } \cup
    { [kind |-> "br", tag |-> "br", class |-> <<>>, nl |-> FALSE] } \cup
    { [kind |-> "wrap", tag |-> "div", class |-> c, nl |-> FALSE] : c \in {<<>>, GutterWord} } \cup
    { [kind |-> "wrap", tag |-> "span", class |-> c, nl |-> FALSE] : c \in WrapClasses \ {GutterWord} } \cup
    { [kind |-> "nest", tag |-> "div", class |-> c, nl |-> FALSE] : c \in WrapClasses \ {<<>>} }

\* node d.n + 1 with tag t, text txt and class attribute cls appended as the
\* last child of p
AddNodeC(d, p, t, txt, cls) ==
    [n     |-> d.n + 1,
     tag   |-> Append(d.tag, t),
     kids  |-> Append([d.kids EXCEPT ![p] = Append(@, d.n + 1)], <<>>),
     text  |-> Append(d.text, txt),
     class |-> Append(d.class, cls)]

\* a text node saying its own number, and a newline after it if nl
AddText(d, p, nl) ==
    AddNodeC(d, p, "#text", IF nl THEN <<Mark(d.n + 1), NL>> ELSE <<Mark(d.n + 1)>>, <<>>)

AddItem(d, p, it) ==
    CASE it.kind = "text" -> AddText(d, p, it.nl)
      [] it.kind = "br"   -> AddNodeC(d, p, "br", <<>>, <<>>)
      [] it.kind = "wrap" -> AddText(AddNodeC(d, p, it.tag, <<>>, it.class), d.n + 1, FALSE)
      [] it.kind = "nest" ->
            LET d1 == AddNodeC(d, p, "div", <<>>, <<>>)
                d2 == AddNodeC(d1, d1.n, "span", <<>>, it.class)
                d3 == AddText(d2, d2.n, FALSE)
            IN  AddText(d3, d1.n, FALSE)

RECURSIVE AddItems(_, _, _)
AddItems(d, p, items) ==
    IF items = <<>> THEN d ELSE AddItems(AddItem(d, p, Head(items)), p, Tail(items))

EmptyCodeDoc(root) ==
    [n |-> 1, tag |-> <<root>>, kids |-> << <<>> >>, text |-> << <<>> >>, class |-> << <<>> >>]

\* div > pre > [code >]: the tree, and the node that holds the content
PreDoc(preClass, withCode, codeClass) ==
    LET d1 == AddNodeC(EmptyCodeDoc("div"), 1, "pre", <<>>, preClass)
    IN  IF withCode THEN AddNodeC(d1, 2, "code", <<>>, codeClass) ELSE d1

\* the pre carries no class, with and without a code element, or it is a pre
\* of class "line-numbers" around a code element
WalkDocs(len) ==
    { AddItems(PreDoc(pw[1], pw[2], <<>>), IF pw[2] THEN 3 ELSE 2, items) :
        pw \in { <<(<<>>), FALSE>>, <<(<<>>), TRUE>>, <<LineNumbersWord, TRUE>> },
        items \in UNION { [1 .. k -> ItemKinds] : k \in 0 .. len } }

LangDocs ==
    { AddText(PreDoc(pc0, wc, cc), IF wc THEN 3 ELSE 2, FALSE) :
        pc0 \in LangClasses, wc \in BOOLEAN, cc \in LangClasses }

CodeAlphabet == {"a", Backtick, " ", NL, "\r"}

InlineDocs(len) ==
    { AddNodeC(AddNodeC(EmptyCodeDoc("p"), 1, "code", <<>>, <<>>), 2, "#text", t, <<>>) :
        t \in UNION { [1 .. k -> CodeAlphabet] : k \in 0 .. len } }

\* NewConverter without the default rules
InitCode ==
    /\ rules  = [t \in CodeTags |-> <<>>]
    /\ remove = {}
    /\ before = <<>>
    /\ mutex  = FreeMutex
    /\ doc    = NoDoc
    /\ pc     = "idle"
    /\ out    = NoOut
    /\ acc    = NoAcc
    /\ walk   = <<>>
    /\ gen    = 0

\* Converter.Use(plugin.RobustCodeBlock()): the two rules are added (line 125)
UseRobustCodeBlock ==
    /\ pc = "idle"
    /\ rules["pre"] = <<>>
    /\ rules' = [rules EXCEPT !["pre"] = Append(@, "pre"), !["code"] = Append(@, "code")]
    /\ UNCHANGED <<remove, before, mutex, doc, pc, out, acc, walk, gen>>

\* applyRulesToSelection on a tree of each family
RenderWalk == pc = "idle" /\ \E d \in WalkDocs(MaxItems) : Render(d)

RenderLang == pc = "idle" /\ \E d \in LangDocs : Render(d)

RenderInline == pc = "idle" /\ \E d \in InlineDocs(MaxCode) : Render(d)

NextCode ==
    \/ UseRobustCodeBlock
    \/ RenderWalk
    \/ RenderLang
    \/ RenderInline
    \/ Return

SpecCode == InitCode /\ [][NextCode]_vars

CodeInstalled == rules["pre"] = <<"pre">> /\ rules["code"] = <<"code">>

\* word occurs in str, whatever the case of the letters of str
OccursIn(word, str) ==
    LET low == ToLower(str)
    IN  \E i \in 1 .. (Len(str) + 1 - Len(word)) : SubSeq(low, i, i + Len(word) - 1) = word

PresOf(d) == { n \in NodesOf(d) : d.tag[n] = "pre" }

\* an element whose class attribute contains "gutter" or "line-numbers"
GutterClassed(d, a) ==
    /\ IsElement(d, a)
    /\ OccursIn(GutterWord, ClassOf(d, a)) \/ OccursIn(LineNumbersWord, ClassOf(d, a))

\* the nodes of the subtree of p that the walk visits, in document order:
\* those that neither are nor lie below a gutter-classed element of the subtree
Visited(d, p) ==
    LET Gutters == { a \in NodesOf(d) : (a = p \/ p \in Ancestors(d, a)) /\ GutterClassed(d, a) }
    IN  SelectSeq(Preorder(d, p),
                  LAMBDA n : n \notin Gutters /\ Ancestors(d, n) \cap Gutters = {})

\* what the walk emits on reaching node v
Emitted(d, v) ==
    IF ~IsElement(d, v) THEN TextOf(d, v)
    ELSE IF d.tag[v] = "br" THEN <<NL>>
    ELSE <<>>

\* the walk of the claim: every visited text verbatim, a newline for each br,
\* one newline after the children of each block-ish element, that is, after
\* the last visited node of its subtree; V is the sequence of visited nodes
WalkAsClaimed(d, V) ==
    LET Within     == [i \in 1 .. Len(V) |-> {V[i]} \cup Ancestors(d, V[i])]
        Last(a)    == CHOOSE i \in 1 .. Len(V) :
                          a \in Within[i] /\ \A j \in (i + 1) .. Len(V) : a \notin Within[j]
        Ends       == [k \in 1 .. Len(V) |-> IF d.tag[V[k]] \in BlockIsh THEN Last(V[k]) ELSE 0]
        Closing(i) == Cardinality({ k \in 1 .. Len(V) : Ends[k] = i })
    IN  JoinPieces([i \in 1 .. Len(V) |-> Emitted(d, V[i]) \o Repeat(<<NL>>, Closing(i))])

\* str without the newlines at its end
WithoutTrailingNewLines(str) ==
    LET Inked == { i \in 1 .. Len(str) : str[i] # NL }
    IN  IF Inked = {} THEN <<>>
        ELSE SubSeq(str, 1, CHOOSE i \in Inked : \A j \in Inked : j <= i)

\* the language tags that the class attributes of the trees can give
LangTags == {<<>>, <<"g", "o">>, <<"j", "s">>, <<"G", "O">>}

\* md is a fenced block around content: blank line, fence and a language tag,
\* the content, the fence, blank line
FencedBlock(md, content) ==
    \E k \in 3 .. (Len(content) + 3), lang \in LangTags :
        /\ Len(md) = 2 * k + Len(lang) + Len(content) + 6
        /\ md = <<NL, NL>> \o Repeat(<<Backtick>>, k) \o lang \o <<NL>> \o content
                \o <<NL>> \o Repeat(<<Backtick>>, k) \o <<NL, NL>>

TextsBelow(d, p) == { t \in NodesOf(d) : ~IsElement(d, t) /\ p \in Ancestors(d, t) }

MarkAt(str, n) == CHOOSE i \in 1 .. Len(str) : str[i] = Mark(n)

\* C13: the fenced content of a pre is the walk of its subtree that emits
\* every text verbatim, a newline for each br and one newline after each
\* block-ish element, and nothing for a gutter-classed element or below it,
\* with the trailing newlines trimmed; so every text with no gutter-classed
\* element on its path appears in the output, in document order, and a text
\* under a gutter-classed element never does.
C13_FencedContent ==
    (pc = "rendered" /\ CodeInstalled) =>
        \A p \in PresOf(doc) :
            LET md      == Entry(p).res.Markdown
                V       == Visited(doc, p)
                content == WithoutTrailingNewLines(WalkAsClaimed(doc, V))
                Shown   == { V[i] : i \in { j \in 1 .. Len(V) : ~IsElement(doc, V[j]) } }
            IN  /\ Cardinality(Entries(p)) = 1
                /\ FencedBlock(md, content)
                /\ \A t \in TextsBelow(doc, p) : HasMark(md, t) <=> t \in Shown
                /\ \A t, u \in Shown : t < u => MarkAt(md, t) < MarkAt(md, u)

\* <pre><code><div>5</div><div>7</div></code></pre> was rendered with the two
\* texts on separate lines inside the fence
C13_Witness ==
    /\ pc = "rendered"
    /\ CodeInstalled
    /\ doc.tag = <<"div", "pre", "code", "div", "#text", "div", "#text">>
    /\ doc.class[4] = <<>> /\ doc.class[6] = <<>> /\ doc.class[2] = <<>>
    /\ Entry(2).res.Markdown =
          <<NL, NL, Backtick, Backtick, Backtick, NL, "5", NL, "7", NL,
            Backtick, Backtick, Backtick, NL, NL>>

\* the positions of str at which a class token starts
TokenStarts(str) ==
    { i \in 1 .. Len(str) : str[i] \notin Space /\ (i = 1 \/ str[i - 1] \in Space) }

\* the class token that starts at position i
TokenAt(str, i) ==
    SubSeq(str, i, CHOOSE j \in i .. Len(str) :
                      /\ \A k \in i .. j : str[k] \notin Space
                      /\ j = Len(str) \/ str[j + 1] \in Space)

IsLangToken(tok) ==
    \/ Len(tok) >= Len(LanguagePrefix) /\ SubSeq(tok, 1, Len(LanguagePrefix)) = LanguagePrefix
    \/ Len(tok) >= Len(LangPrefix) /\ SubSeq(tok, 1, Len(LangPrefix)) = LangPrefix

\* the suffix of the first token of the class list that starts with
\* "language-" or "lang-", nothing when there is none
LangOfClass(class) ==
    LET Starts == { i \in TokenStarts(class) : IsLangToken(TokenAt(class, i)) }
    IN  IF Starts = {} THEN <<>>
        ELSE LET tok == TokenAt(class, CHOOSE i \in Starts : \A j \in Starts : i <= j)
             IN  IF tok[5] = "-" THEN SubSeq(tok, Len(LangPrefix) + 1, Len(tok))
                 ELSE SubSeq(tok, Len(LanguagePrefix) + 1, Len(tok))

AsWritten(class) == class

\* the language of the pre p: from the class list of the code element inside
\* it and, only if that gives nothing, from the class list of p itself; Fold
\* is what is done to a class list before it is scanned
LangOfPre(d, p, Fold(_)) ==
    LET codes    == { c \in NodesOf(d) : d.tag[c] = "code" /\ p \in Ancestors(d, c) }
        fromCode == IF codes = {} THEN <<>>
                    ELSE LangOfClass(Fold(ClassOf(d, CHOOSE c \in codes : \A e \in codes : c <= e)))
    IN  IF fromCode # <<>> THEN fromCode ELSE LangOfClass(Fold(ClassOf(d, p)))

\* what stands between the opening fence and the end of its line
LangWritten(md) ==
    LET start == CHOOSE i \in 3 .. Len(md) : md[i] # Backtick /\ \A j \in 3 .. (i - 1) : md[j] = Backtick
        stop  == CHOOSE i \in start .. Len(md) : md[i] = NL /\ \A j \in start .. (i - 1) : md[j] # NL
    IN  SubSeq(md, start, stop - 1)

\* C14 as stated: the language tag after the opening fence is the suffix of
\* the first class token starting with "language-" or "lang-", taken from the
\* class list of the code element inside the pre and otherwise from that of
\* the pre; with no such token the fence is followed by a newline.
C14_Original ==
    (pc = "rendered" /\ CodeInstalled) =>
        \A p \in PresOf(doc) : LangWritten(Entry(p).res.Markdown) = LangOfPre(doc, p, AsWritten)

\* C14: the language tag after the opening fence is the suffix of the first
\* token starting with "language-" or "lang-" of the lower-cased class list of
\* the code element inside the pre and, only if that gives nothing, of the
\* lower-cased class list of the pre; with no such token the fence is followed
\* directly by a newline.
C14_LanguageTag ==
    (pc = "rendered" /\ CodeInstalled) =>
        \A p \in PresOf(doc) : LangWritten(Entry(p).res.Markdown) = LangOfPre(doc, p, ToLower)

\* a code element of class "hl lang-js language-go" in a pre of class
\* "language-go" was fenced as js
C14_Witness ==
    /\ pc = "rendered"
    /\ CodeInstalled
    /\ doc.tag = <<"div", "pre", "code", "#text">>
    /\ doc.class[2] = LanguagePrefix \o <<"g", "o">>
    /\ doc.class[3] = <<"h", "l", " ">> \o LangPrefix \o <<"j", "s", " ">> \o LanguagePrefix \o <<"g", "o">>
    /\ LangWritten(Entry(2).res.Markdown) = <<"j", "s">>

\* the code elements that have no pre ancestor
InlineCodes(d) ==
    { c \in NodesOf(d) : d.tag[c] = "code" /\ \A a \in Ancestors(d, c) : d.tag[a] # "pre" }

Ticks(k) == [i \in 1 .. k |-> Backtick]

\* str holds k backticks in a row somewhere
HasTicks(str, k) ==
    \E i \in 1 .. Len(str) : i + k - 1 <= Len(str) /\ \A j \in i .. (i + k - 1) : str[j] = Backtick

\* md is code between two delimiters of k backticks, k being 1 when the code
\* has no backtick, 2 when it has a backtick but no two in a row, 3 when it has
\* two in a row, and the delimiter does not occur in the code
DelimitedBy(md, k) ==
    LET code == SubSeq(md, k + 1, Len(md) - k)
    IN  /\ Len(md) >= 2 * k
        /\ SubSeq(md, 1, k) = Ticks(k)
        /\ SubSeq(md, Len(md) - k + 1, Len(md)) = Ticks(k)
        /\ k = (IF ~HasTicks(code, 1) THEN 1 ELSE IF ~HasTicks(code, 2) THEN 2 ELSE 3)
        /\ ~HasTicks(code, k)

\* C15: a code element with no pre ancestor is wrapped on both sides in the
\* shortest run of 1, 2 or 3 backticks not present in its code text: one when
\* the text has no backtick, two when it has a single backtick, three when it
\* has a double backtick; the delimiter is never present inside the text.
C15_DelimiterNeverInside ==
    (pc = "rendered" /\ CodeInstalled) =>
        \A c \in InlineCodes(doc) :
            /\ Cardinality(Entries(c)) = 1
            /\ \E k \in 1 .. 3 : DelimitedBy(Entry(c).res.Markdown, k)

----------------------------------------------------------------------------
(* The TableCompat plugin on one row, table > tbody > tr > cell ... cell.    *)
(* A cell is empty, or holds a span around a text, a span around a blank     *)
(* text, an img, or a script around a text.  The caller registered a         *)
(* Replacement for span and img that returns what the element stands for     *)
(* (the text of the span, the alt of the img); script has no rule and text   *)
(* nodes have none, so a script renders as nothing.                          *)

MaxCompat == 3

CompatTags == {"table", "tbody", "tr", "td", "th", "span", "img", "script", "#text"}

CompatKinds == {"empty", "plain", "blank", "img", "script"}

AddCompatCell(d, row, t, kind) ==
    LET d1 == AddNodeC(d, row, t, <<>>, <<>>)
        c  == d1.n
    IN  CASE kind = "empty"  -> d1
          [] kind = "plain"  ->
                AddNodeC(AddNodeC(d1, c, "span", <<Mark(c)>>, <<>>), c + 1, "#text", <<Mark(c)>>, <<>>)
          [] kind = "blank"  ->
                AddNodeC(AddNodeC(d1, c, "span", <<" ">>, <<>>), c + 1, "#text", <<" ">>, <<>>)
          [] kind = "img"    -> AddNodeC(d1, c, "img", <<Mark(c)>>, <<>>)
          [] kind = "script" ->
                AddNodeC(AddNodeC(d1, c, "script", <<>>, <<>>), c + 1, "#text", <<Mark(c)>>, <<>>)

RECURSIVE AddCompatCells(_, _, _, _)
AddCompatCells(d, row, kinds, t) ==
    IF kinds = <<>> THEN d
    ELSE AddCompatCells(AddCompatCell(d, row, t, Head(kinds)), row, Tail(kinds), "td")

CompatDocs(len) ==
    { AddCompatCells(
          AddNodeC(AddNodeC(EmptyCodeDoc("table"), 1, "tbody", <<>>, <<>>), 2, "tr", <<>>, <<>>),
          3, kinds, first) :
        first \in {"td", "th"}, kinds \in UNION { [1 .. k -> CompatKinds] : k \in 0 .. len } }

\* a Converter on which the caller registered the Replacement for span and img
InitCompat ==
    /\ rules  = [t \in CompatTags |-> IF t \in {"span", "img"} THEN <<"say">> ELSE <<>>]
    /\ remove = {}
    /\ before = <<>>
    /\ mutex  = FreeMutex
    /\ doc    = NoDoc
    /\ pc     = "idle"
    /\ out    = NoOut
    /\ acc    = NoAcc
    /\ walk   = <<>>
    /\ gen    = 0

\* Converter.Use(plugin.TableCompat()): the two rules are added
UseTableCompat ==
    /\ pc = "idle"
    /\ rules["tr"] = <<>>
    /\ rules' = [rules EXCEPT !["td"] = Append(@, "compatCell"),
                              !["th"] = Append(@, "compatCell"),
                              !["tr"] = Append(@, "compatRow")]
    /\ UNCHANGED <<remove, before, mutex, doc, pc, out, acc, walk, gen>>

\* applyRulesToSelection on one of the rows
RenderCompat == pc = "idle" /\ \E d \in CompatDocs(MaxCompat) : Render(d)

NextCompat ==
    \/ UseTableCompat
    \/ RenderCompat
    \/ Return

SpecCompat == InitCompat /\ [][NextCompat]_vars

CompatInstalled == rules["tr"] = <<"compatRow">>

RECURSIVE JoinWith(_, _)
\* strings.Join(parts, sep)
JoinWith(parts, sep) ==
    IF parts = <<>> THEN <<>>
    ELSE IF Len(parts) = 1 THEN Head(parts)
    ELSE Head(parts) \o sep \o JoinWith(Tail(parts), sep)

\* the trimmed texts of the cells of row r, the empty ones left out
CellTexts(r) ==
    SelectSeq([i \in 1 .. Len(Cells(doc, r)) |-> Trimmed(Entry(Cells(doc, r)[i]).content)],
              LAMBDA t : t # <<>>)

\* C16: with the TableCompat plugin a row renders as the trimmed texts of its
\* cells joined by " . " (the middle dot) and followed by a blank line: one
\* separator between any two non-empty cell texts that end up adjacent, none
\* before the first or after the last, and nothing for an empty cell.
\* The rows looked at are those whose cells render as their own text.
C16_CellsJoinedByMiddleDot ==
    (pc = "rendered" /\ CompatInstalled) =>
        \A r \in RowsOf(doc) :
            (\A i \in 1 .. Len(Cells(doc, r)) :
                Trimmed(Entry(Cells(doc, r)[i]).content) = Trimmed(TextContent(doc, Cells(doc, r)[i])))
            => /\ Cardinality(Entries(r)) = 1
               /\ Entry(r).res.Markdown =
                     JoinWith(CellTexts(r), <<" ", MiddleDot, " ">>) \o <<NL, NL>>

====
